---- MODULE Spec2Model ----
(***************************************************************************)
(* A model of rorth (src/src/main.rs): the lexer, the parser with its     *)
(* cross-reference stack, the bytecode interpreter, the x86-64 emitter,    *)
(* the assembler's label resolution and the execution of the emitted code. *)
(*                                                                         *)
(* Rust vectors are indexed from 0 and TLA+ sequences from 1: At(v, i) is  *)
(* v[i] of the source.  A panic (index out of bounds, unwrap of None) and  *)
(* process::exit(1) both end the process; the model records which.         *)
(***************************************************************************)
EXTENDS Integers, Sequences, FiniteSets, TLC

\* ------------------------------------------------------------------ bounds

\* longest token sequence of the general specification
MaxTokens == 4
\* longest token sequence of the control-flow specification
MaxCtlTokens == 6
\* longest token sequence of the if/else/end specification
MaxIfTokens == 7
\* operand stack depth beyond which a run is cut off
MaxStack == 3
\* number of output bytes beyond which a run is cut off
MaxOut == 45
\* largest magnitude of an operand of the programs of one operation
MaxOperand == 3
\* largest initial counter of the countdown loop
MaxCount == 10
\* longest source text of the lexer's specification
MaxSource == 6
\* most arguments of a command line of the specification of main
MaxArgs == 3
MaxSkipTokens == 6
\* width in bits of the model's machine integer: TLC's integers have 32 bits,
\* so the i64 of the source is scaled down; what an operation does on
\* overflow does not depend on the width
WordBits == 10

\* ------------------------------------------------------------------ helpers

Last(s) == s[Len(s)]
Front(s) == SubSeq(s, 1, Len(s) - 1)
SeqsUpTo(A, n) == UNION {[1..k -> A] : k \in 0..n}

\* ------------------------------------------------------------------ data

Opcodes ==
    {"OP_PUSH", "OP_ADD", "OP_SUB", "OP_MUL", "OP_DIV", "OP_NOT", "OP_EQ",
     "OP_NE", "OP_GT", "OP_LT", "OP_GE", "OP_LE", "OP_DUP", "OP_DUMP",
     "OP_IF", "OP_ELSE", "OP_END", "OP_WHILE", "OP_DO"}

Instruction(opcode, operands, ip) ==
    [opcode |-> opcode, operands |-> operands, ip |-> ip]

\* v[i] of a Rust vector, and the bounds check that guards it
InBounds(v, i) == i >= 0 /\ i < Len(v)
At(v, i) == v[i + 1]

\* a variant that stores the index after the one given, the end+1 convention
\* of the parser's comments
PushOperandNext(program, i, x) ==
    [program EXCEPT ![i + 1].operands = Append(@, x + 1)]

\* program[i].operands.push(x)
PushOperand(program, i, x) ==
    [program EXCEPT ![i + 1].operands = Append(@, x)]

\* a variant in which the operand stays where it is
PopOperandKeep(program, i) == program

\* program[i].operands.pop(), the vector after the pop
PopOperand(program, i) ==
    [program EXCEPT ![i + 1].operands = Front(@)]

\* ------------------------------------------------------------------ lexer

\* Token::new(tok, row, col); the text of a lexed token is the sequence of
\* its characters
Token(tok, row, col) == [tok |-> tok, row |-> row, col |-> col]

\* char::is_whitespace on the characters of the model
IsWhitespace(c) == c \in {" ", "\n"}

\* s.split(sep) for a one-character separator: the pieces between the
\* separators, empty ones included
RECURSIVE SplitOn(_, _)
SplitOn(s, sep) ==
    IF s = <<>> THEN <<<<>>>>
    ELSE LET rest == SplitOn(Tail(s), sep) IN
         IF Head(s) = sep THEN <<<<>>>> \o rest
         ELSE <<<<Head(s)>> \o Head(rest)>> \o Tail(rest)

\* source.lines(): the pieces between the newlines, without a last empty one
Lines(s) ==
    LET pieces == SplitOn(s, "\n") IN
    IF Last(pieces) = <<>> THEN Front(pieces) ELSE pieces

\* a variant that leaves the comment in the line
WholeLine(line) == line

\* line.split("//").next().unwrap(): the line up to its first //
RECURSIVE BeforeComment(_)
BeforeComment(line) ==
    IF line = <<>> THEN <<>>
    ELSE IF Len(line) >= 2 /\ line[1] = "/" /\ line[2] = "/" THEN <<>>
    ELSE <<Head(line)>> \o BeforeComment(Tail(line))

\* line.split_whitespace(): the maximal runs of characters that are not
\* whitespace; word is the run being read
RECURSIVE SplitWhitespaceFrom(_, _)
SplitWhitespaceFrom(line, word) ==
    IF line = <<>> THEN (IF word = <<>> THEN <<>> ELSE <<word>>)
    ELSE IF IsWhitespace(Head(line))
         THEN (IF word = <<>> THEN <<>> ELSE <<word>>)
              \o SplitWhitespaceFrom(Tail(line), <<>>)
    ELSE SplitWhitespaceFrom(Tail(line), Append(word, Head(line)))

SplitWhitespace(line) == SplitWhitespaceFrom(line, <<>>)

\* the tokens of line i
LineTokens(line, i) ==
    LET words == SplitWhitespace(BeforeComment(line)) IN
    [j \in 1..Len(words) |-> Token(words[j], i, j - 1)]

\* the loop over source.lines().enumerate(), from line k (from 1) on
RECURSIVE LexFrom(_, _)
LexFrom(lines, k) ==
    IF k > Len(lines) THEN <<>>
    ELSE LineTokens(lines[k], k - 1) \o LexFrom(lines, k + 1)

\* a variant whose loop starts at the second line
LexerFromSecondLine(s) == LexFrom(Lines(s), 2)

Lexer(s) == LexFrom(Lines(s), 1)

\* ------------------------------------------------------------------ parser

\* tokens that map to an instruction without operands
SimpleOpcode ==
    [t \in {"+", "-", "*", "/", "!", "=", "!=", ">", ">=", "<", "<=", ".", "dup"} |->
        CASE t = "+" -> "OP_ADD"
          [] t = "-" -> "OP_SUB"
          [] t = "*" -> "OP_MUL"
          [] t = "/" -> "OP_DIV"
          [] t = "!" -> "OP_NOT"
          [] t = "=" -> "OP_EQ"
          [] t = "!=" -> "OP_NE"
          [] t = ">" -> "OP_GT"
          [] t = ">=" -> "OP_GE"
          [] t = "<" -> "OP_LT"
          [] t = "<=" -> "OP_LE"
          [] t = "." -> "OP_DUMP"
          [] t = "dup" -> "OP_DUP"]

\* tok.parse::<i64>() on the literals of the model: the value of each text
\* that parses; every other text is an Err
IntLiteral ==
    ("0" :> 0) @@ ("1" :> 1) @@ ("2" :> 2) @@ ("3" :> 3) @@ ("4" :> 4)
    @@ ("5" :> 5) @@ ("6" :> 6) @@ ("7" :> 7) @@ ("8" :> 8) @@ ("9" :> 9)
    @@ ("10" :> 10) @@ ("11" :> 11) @@ ("12" :> 12) @@ ("420" :> 420)
    @@ ("-1" :> -1) @@ ("-2" :> -2) @@ ("-3" :> -3) @@ ("-4" :> -4)
    @@ ("-5" :> -5) @@ ("+1" :> 1)

\* the range of the machine integer
MinInt == -(2 ^ (WordBits - 1))
MaxInt == (2 ^ (WordBits - 1)) - 1

ParsesAsInt(tok) ==
    /\ tok \in DOMAIN IntLiteral
    /\ IntLiteral[tok] >= MinInt
    /\ IntLiteral[tok] <= MaxInt

\* the parser's diagnostics
ErrElse == "Found else without matching if"
ErrWhile == "Found while without matching do"
ErrDo == "Found do without matching while"
ErrEnd == "Found end without matching if-else or while-do"
ErrInt == "Expected integer"
ErrIndex == "index out of bounds"

\* the parser's locals after one token: err is empty when the loop goes on
POk(program, crossref) ==
    [program |-> program, crossref |-> crossref, err |-> ""]
PFail(program, crossref, e) ==
    [program |-> program, crossref |-> crossref, err |-> e]

OnSimple(program, crossref, ip, tok) ==
    POk(Append(program, Instruction(SimpleOpcode[tok], <<>>, ip)), crossref)

OnPush(program, crossref, ip, tok) ==
    IF ParsesAsInt(tok)
    THEN POk(Append(program, Instruction("OP_PUSH", <<IntLiteral[tok]>>, ip)), crossref)
    ELSE PFail(program, crossref, ErrInt)

OnIf(program, crossref, ip) ==
    POk(Append(program, Instruction("OP_IF", <<>>, ip)), Append(crossref, ip))

\* a variant that accepts whatever instruction the popped entry refers to
OnElseUnchecked(program, crossref, ip) ==
    LET p1 == Append(program, Instruction("OP_ELSE", <<>>, ip)) IN
    IF crossref = <<>> THEN PFail(p1, crossref, ErrElse)
    ELSE LET if_ip == Last(crossref)
             x1 == Front(crossref) IN
         IF ~InBounds(p1, if_ip) THEN PFail(p1, x1, ErrIndex)
         ELSE POk(PushOperand(p1, if_ip, ip), Append(x1, ip))

\* a variant that leaves the IF on the cross-reference stack
OnElseKeepsIf(program, crossref, ip) ==
    LET p1 == Append(program, Instruction("OP_ELSE", <<>>, ip)) IN
    IF crossref = <<>> THEN PFail(p1, crossref, ErrElse)
    ELSE LET if_ip == Last(crossref)
             x1 == Front(crossref) IN
         IF ~InBounds(p1, if_ip) THEN PFail(p1, x1, ErrIndex)
         ELSE IF At(p1, if_ip).opcode # "OP_IF" THEN PFail(p1, x1, ErrElse)
         ELSE POk(PushOperand(p1, if_ip, ip), Append(x1, if_ip))

OnElse(program, crossref, ip) ==
    LET p1 == Append(program, Instruction("OP_ELSE", <<>>, ip)) IN
    IF crossref = <<>> THEN PFail(p1, crossref, ErrElse)
    ELSE LET if_ip == Last(crossref)
             x1 == Front(crossref) IN
         IF ~InBounds(p1, if_ip) THEN PFail(p1, x1, ErrIndex)
         ELSE IF At(p1, if_ip).opcode # "OP_IF" THEN PFail(p1, x1, ErrElse)
         ELSE POk(PushOperand(p1, if_ip, ip), Append(x1, ip))

\* a variant in which the index of the new WHILE is the only one kept
OnWhileSingle(program, crossref, ip) ==
    LET p1 == Append(program, Instruction("OP_WHILE", <<>>, ip)) IN
    IF ~InBounds(p1, ip) THEN PFail(p1, crossref, ErrIndex)
    ELSE POk(p1, <<At(p1, ip).ip>>)

OnWhile(program, crossref, ip) ==
    LET p1 == Append(program, Instruction("OP_WHILE", <<>>, ip)) IN
    IF ~InBounds(p1, ip) THEN PFail(p1, crossref, ErrIndex)
    ELSE POk(p1, Append(crossref, At(p1, ip).ip))

OnDo(program, crossref, ip) ==
    IF crossref = <<>> THEN POk(program, crossref)
    ELSE LET while_ip == Last(crossref)
             x1 == Front(crossref) IN
         IF ~InBounds(program, while_ip) THEN PFail(program, x1, ErrIndex)
         ELSE IF At(program, while_ip).opcode # "OP_WHILE"
              THEN PFail(program, x1, ErrWhile)
         ELSE LET p1 == Append(program, Instruction("OP_DO", <<>>, ip)) IN
              IF ~InBounds(p1, ip) THEN PFail(p1, x1, ErrIndex)
              ELSE POk(PushOperand(p1, ip, while_ip),
                       Append(x1, At(p1, ip).ip))

OnEnd(program, crossref, ip) ==
    LET p1 == Append(program, Instruction("OP_END", <<>>, ip)) IN
    IF crossref = <<>> THEN PFail(p1, crossref, ErrEnd)
    ELSE LET prev_ip == Last(crossref)
             x1 == Front(crossref) IN
         IF ~InBounds(p1, prev_ip) THEN PFail(p1, x1, ErrIndex)
         ELSE LET prev == At(p1, prev_ip).opcode IN
              IF prev \in {"OP_IF", "OP_ELSE"}
              THEN POk(PushOperand(p1, prev_ip, ip), x1)
              ELSE IF prev = "OP_WHILE" THEN PFail(p1, x1, ErrWhile)
              ELSE IF prev = "OP_DO"
              THEN IF At(p1, prev_ip).operands = <<>>
                   THEN PFail(p1, x1, ErrDo)
                   ELSE LET while_ip == Last(At(p1, prev_ip).operands)
                            p2 == PopOperand(p1, prev_ip) IN
                        IF ~InBounds(p2, ip) THEN PFail(p2, x1, ErrIndex)
                        ELSE POk(PushOperand(PushOperand(p2, ip, while_ip),
                                             prev_ip, ip), x1)
              ELSE POk(p1, x1)

\* one iteration of the parser's loop, on token tok at index ip
ParseToken(program, crossref, ip, tok) ==
    IF tok \in DOMAIN SimpleOpcode THEN OnSimple(program, crossref, ip, tok)
    ELSE IF tok = "if" THEN OnIf(program, crossref, ip)
    ELSE IF tok = "else" THEN OnElse(program, crossref, ip)
    ELSE IF tok = "while" THEN OnWhile(program, crossref, ip)
    ELSE IF tok = "do" THEN OnDo(program, crossref, ip)
    ELSE IF tok = "end" THEN OnEnd(program, crossref, ip)
    ELSE OnPush(program, crossref, ip, tok)

\* ------------------------------------------------------------------ interpreter

DigitChar == <<"0", "1", "2", "3", "4", "5", "6", "7", "8", "9">>

\* the decimal digits of n >= 0, most significant first
RECURSIVE DecDigits(_)
DecDigits(n) ==
    IF n < 10 THEN <<DigitChar[n + 1]>>
    ELSE Append(DecDigits(n \div 10), DigitChar[(n % 10) + 1])

\* format!("{}", a) of an i64
FormatI64(a) == IF a < 0 THEN <<"-">> \o DecDigits(-a) ELSE DecDigits(a)

\* a variant that writes the number without the newline
WriteBare(out, a) == out \o FormatI64(a)

\* writeln!(stdout, "{}", a)
WriteLn(out, a) == out \o FormatI64(a) \o <<"\n">>

\* b / a of Rust: the quotient truncated toward zero (a # 0)
TruncDiv(b, a) ==
    LET q == (IF b < 0 THEN -b ELSE b) \div (IF a < 0 THEN -a ELSE a) IN
    IF (b < 0) = (a < 0) THEN q ELSE -q

Bool2Int(c) == IF c THEN 1 ELSE 0

\* the interpreter's locals after one instruction
IState(stack, ip, out, status) ==
    [stack |-> stack, ip |-> ip, out |-> out, status |-> status]

\* the builds of the interpreter: cargo's dev profile checks integer
\* overflow, its release profile does not
Profiles == {"debug", "release"}

\* x reduced to the machine integer's range, two's complement
Wrap(x) == ((x - MinInt) % (2 ^ WordBits)) + MinInt

\* a variant with the operands of SUB and DIV in the order they were popped
ArithResultSwapped(opcode, a, b) ==
    CASE opcode = "OP_ADD" -> a + b
      [] opcode = "OP_SUB" -> a - b
      [] opcode = "OP_MUL" -> a * b
      [] opcode = "OP_DIV" -> IF b = 0 THEN 0 ELSE TruncDiv(a, b)

\* a + b, b - a, a * b and b / a (a # 0) on mathematical integers
ArithResult(opcode, a, b) ==
    CASE opcode = "OP_ADD" -> a + b
      [] opcode = "OP_SUB" -> b - a
      [] opcode = "OP_MUL" -> a * b
      [] opcode = "OP_DIV" -> TruncDiv(b, a)

\* a variant that compares a with b instead of b with a
CompareResultSwapped(opcode, a, b) ==
    CASE opcode = "OP_EQ" -> Bool2Int(a = b)
      [] opcode = "OP_NE" -> Bool2Int(a # b)
      [] opcode = "OP_GT" -> Bool2Int(a > b)
      [] opcode = "OP_GE" -> Bool2Int(a >= b)
      [] opcode = "OP_LT" -> Bool2Int(a < b)
      [] opcode = "OP_LE" -> Bool2Int(a <= b)

\* ((b op a) as i32) as i64
CompareResult(opcode, a, b) ==
    CASE opcode = "OP_EQ" -> Bool2Int(a = b)
      [] opcode = "OP_NE" -> Bool2Int(a # b)
      [] opcode = "OP_GT" -> Bool2Int(b > a)
      [] opcode = "OP_GE" -> Bool2Int(b >= a)
      [] opcode = "OP_LT" -> Bool2Int(b < a)
      [] opcode = "OP_LE" -> Bool2Int(b <= a)

ArithOpcodes == {"OP_ADD", "OP_SUB", "OP_MUL", "OP_DIV"}
CompareOpcodes == {"OP_EQ", "OP_NE", "OP_GT", "OP_GE", "OP_LT", "OP_LE"}

\* an arm that pops a (top) and b (second) with unwrap and pushes one
\* value.  Integer operators of Rust: a result out of range panics under
\* the debug profile and wraps under the release profile; a division by
\* zero and the division of the least integer by -1 panic under both
Binary(stack, ip, out, opcode, profile) ==
    IF stack = <<>> THEN IState(stack, ip, out, "panic")
    ELSE IF Len(stack) = 1 THEN IState(Front(stack), ip, out, "panic")
    ELSE LET a == stack[Len(stack)]
             b == stack[Len(stack) - 1]
             rest == SubSeq(stack, 1, Len(stack) - 2) IN
         IF opcode \in CompareOpcodes
         THEN IState(Append(rest, CompareResult(opcode, a, b)), ip, out, "running")
         ELSE IF opcode = "OP_DIV" /\ (a = 0 \/ (b = MinInt /\ a = -1))
         THEN IState(rest, ip, out, "panic")
         ELSE LET r == ArithResult(opcode, a, b) IN
              IF r >= MinInt /\ r <= MaxInt
              THEN IState(Append(rest, r), ip, out, "running")
              ELSE IF profile = "debug" THEN IState(rest, ip, out, "panic")
              ELSE IState(Append(rest, Wrap(r)), ip, out, "running")

\* a variant that takes every nonzero value for true
NotTruthy(stack, ip, out) ==
    IF stack = <<>> THEN IState(stack, ip, out, "panic")
    ELSE IF Last(stack) = 0 THEN IState(Append(Front(stack), 1), ip, out, "running")
    ELSE IState(Append(Front(stack), 0), ip, out, "running")

\* the arm of NOT: 0 and 1 are negated, any other value is reported
Not(stack, ip, out) ==
    IF stack = <<>> THEN IState(stack, ip, out, "panic")
    ELSE IF Last(stack) = 0 THEN IState(Append(Front(stack), 1), ip, out, "running")
    ELSE IF Last(stack) = 1 THEN IState(Append(Front(stack), 0), ip, out, "running")
    ELSE IState(Front(stack), ip, out, "exit1")

\* a variant of the arms of IF and DO that jumps on a nonzero value
JumpIfNonZero(ins, stack, ip, out) ==
    IF stack = <<>> THEN IState(stack, ip, out, "panic")
    ELSE IF Last(stack) = 0 THEN IState(Front(stack), ip, out, "running")
    ELSE IF ins.operands = <<>> THEN IState(Front(stack), ip, out, "panic")
    ELSE IState(Front(stack), ins.operands[1], out, "running")

\* the arms of IF and DO: pop a; if a == 0 { ip = ins.operands[0] }
JumpIfZero(ins, stack, ip, out) ==
    IF stack = <<>> THEN IState(stack, ip, out, "panic")
    ELSE IF Last(stack) # 0 THEN IState(Front(stack), ip, out, "running")
    ELSE IF ins.operands = <<>> THEN IState(Front(stack), ip, out, "panic")
    ELSE IState(Front(stack), ins.operands[1], out, "running")

\* whether the diagnostic of a fatal end names the ip of the instruction:
\* the two eprintln! before process::exit(1) print "@ip {}", the panic of
\* unwrap() on None prints the location of the unwrap in main.rs
DiagnosticNamesIp(status) == status = "exit1"

\* the match on ins.opcode, before ip += 1
Execute(ins, stack, ip, out, profile) ==
    CASE ins.opcode = "OP_PUSH" ->
            IF ins.operands = <<>> THEN IState(stack, ip, out, "panic")
            ELSE IState(Append(stack, ins.operands[1]), ip, out, "running")
      [] ins.opcode \in ArithOpcodes \cup CompareOpcodes ->
            Binary(stack, ip, out, ins.opcode, profile)
      [] ins.opcode = "OP_NOT" -> Not(stack, ip, out)
      [] ins.opcode = "OP_DUP" ->
            IF stack = <<>> THEN IState(stack, ip, out, "panic")
            ELSE IState(Append(stack, Last(stack)), ip, out, "running")
      [] ins.opcode = "OP_DUMP" ->
            IF stack = <<>> THEN IState(stack, ip, out, "exit1")
            ELSE IState(Front(stack), ip, WriteLn(out, Last(stack)), "running")
      [] ins.opcode \in {"OP_IF", "OP_DO"} -> JumpIfZero(ins, stack, ip, out)
      [] ins.opcode = "OP_ELSE" ->
            IF ins.operands = <<>> THEN IState(stack, ip, out, "panic")
            ELSE IState(stack, ins.operands[1], out, "running")
      [] ins.opcode = "OP_END" ->
            IF Len(ins.operands) = 1 THEN IState(stack, ins.operands[1], out, "running")
            ELSE IState(stack, ip, out, "running")
      [] ins.opcode = "OP_WHILE" -> IState(stack, ip, out, "running")

\* a run leaves the part of the state space the model explores
OutOfModel(stack, out) ==
    \/ Len(stack) > MaxStack
    \/ Len(out) > MaxOut

\* one iteration of the interpreter's loop
InterpretOne(program, stack, ip, out, profile) ==
    LET s == Execute(At(program, ip), stack, ip, out, profile) IN
    IF s.status # "running" THEN s
    ELSE IF OutOfModel(s.stack, s.out) THEN IState(s.stack, s.ip, s.out, "cut")
    ELSE IState(s.stack, s.ip + 1, s.out, "running")

\* ------------------------------------------------------------------ emitter

\* one line of the emitted assembly: a mnemonic, up to two register
\* operands and an immediate or a label number
Asm(op, a, b, n) == [op |-> op, a |-> a, b |-> b, n |-> n]
Label(ip) == Asm("label", "", "", ip)
Pop(r) == Asm("pop", r, "", 0)
PushReg(r) == Asm("push", r, "", 0)
MovImm(r, n) == Asm("mov", r, "", n)

\* the six comparison arms: rcx = 0, rdx = 1, pop two, cmp rax rbx, cmovcc
Compare(ip, first, second, cc) ==
    <<Label(ip), MovImm("rcx", 0), MovImm("rdx", 1), Pop(first), Pop(second),
      Asm("cmp", "rax", "rbx", 0), Asm(cc, "rcx", "rdx", 0), PushReg("rcx")>>

\* the lines one arm of codegen's match writes; the arms of PUSH, IF, ELSE
\* and DO read ins.operands[0] (NeedsOperand)
NeedsOperand(ins) == ins.opcode \in {"OP_PUSH", "OP_IF", "OP_ELSE", "OP_DO"}
Operand0(ins) == IF ins.operands = <<>> THEN 0 ELSE ins.operands[1]

EmitIns(ins) ==
    CASE ins.opcode = "OP_PUSH" ->
            <<Label(ins.ip), Asm("push_imm", "", "", Operand0(ins))>>
      [] ins.opcode = "OP_ADD" ->
            <<Label(ins.ip), Pop("rax"), Pop("rbx"), Asm("add", "rax", "rbx", 0),
              PushReg("rax")>>
      [] ins.opcode = "OP_SUB" ->
            <<Label(ins.ip), Pop("rax"), Pop("rbx"), Asm("sub", "rbx", "rax", 0),
              PushReg("rbx")>>
      [] ins.opcode = "OP_MUL" ->
            <<Label(ins.ip), Pop("rax"), Pop("rbx"), Asm("mul", "rbx", "", 0),
              PushReg("rax")>>
      [] ins.opcode = "OP_DIV" ->
            <<Label(ins.ip), Asm("xor", "rdx", "rdx", 0), Pop("rbx"), Pop("rax"),
              Asm("div", "rbx", "", 0), PushReg("rax"), PushReg("rdx")>>
      [] ins.opcode = "OP_NOT" ->
            <<Label(ins.ip), Pop("rax"), Asm("not", "rax", "", 0), PushReg("rax")>>
      [] ins.opcode = "OP_EQ" -> Compare(ins.ip, "rax", "rbx", "cmove")
      [] ins.opcode = "OP_NE" -> Compare(ins.ip, "rax", "rbx", "cmovne")
      [] ins.opcode = "OP_GT" -> Compare(ins.ip, "rbx", "rax", "cmovg")
      [] ins.opcode = "OP_GE" -> Compare(ins.ip, "rbx", "rax", "cmovge")
      [] ins.opcode = "OP_LT" -> Compare(ins.ip, "rbx", "rax", "cmovl")
      [] ins.opcode = "OP_LE" -> Compare(ins.ip, "rbx", "rax", "cmovle")
      [] ins.opcode = "OP_DUP" ->
            <<Label(ins.ip), Pop("rax"), PushReg("rax"), PushReg("rax")>>
      [] ins.opcode = "OP_DUMP" ->
            <<Label(ins.ip), Pop("rdi"), Asm("call_dump", "", "", 0)>>
      [] ins.opcode = "OP_IF" ->
            <<Label(ins.ip), Pop("rax"), Asm("test", "rax", "rax", 0),
              Asm("jz", "", "", Operand0(ins) + 1)>>
      [] ins.opcode = "OP_ELSE" ->
            <<Label(ins.ip), Asm("jmp", "", "", Operand0(ins) + 1)>>
      [] ins.opcode = "OP_END" ->
            IF Len(ins.operands) = 0 THEN <<>>
            ELSE <<Label(ins.ip), Asm("jmp", "", "", Operand0(ins))>>
      [] ins.opcode = "OP_WHILE" -> <<Label(ins.ip)>>
      [] ins.opcode = "OP_DO" ->
            <<Label(ins.ip), Pop("rax"), Asm("test", "rax", "rax", 0),
              Asm("jz", "", "", Operand0(ins) + 1)>>

\* .end: mov rax, SYS_EXIT; mov rdi, 0; syscall; ret
SYS_EXIT == 60
Epilogue ==
    <<Asm("end_label", "", "", 0), MovImm("rax", SYS_EXIT), MovImm("rdi", 0),
      Asm("syscall", "", "", 0), Asm("ret", "", "", 0)>>

\* the loop over the program: the lines written so far, and whether an arm
\* panicked on a missing operand (the lines before the one that reads it
\* are already written)
RECURSIVE EmitFrom(_, _, _)
EmitFrom(program, k, lines) ==
    IF k > Len(program) THEN [asm |-> lines \o Epilogue, status |-> "emitted"]
    ELSE IF NeedsOperand(program[k]) /\ program[k].operands = <<>>
         THEN [asm |-> lines \o Front(EmitIns(program[k])), status |-> "panic"]
    ELSE EmitFrom(program, k + 1, lines \o EmitIns(program[k]))

\* the text of the assembly file after _start:
Codegen(program) == EmitFrom(program, 1, <<>>)

\* ------------------------------------------------------------------ assembler

DefinedLabels(asm) == {asm[i].n : i \in {j \in 1..Len(asm) : asm[j].op = "label"}}
JumpTargets(asm) == {asm[i].n : i \in {j \in 1..Len(asm) : asm[j].op \in {"jz", "jmp"}}}

\* nasm's exit status on the file when nothing outside the file goes wrong:
\* a reference to a label the file does not define is an error
Build(asm) == IF JumpTargets(asm) \subseteq DefinedLabels(asm) THEN 0 ELSE 1

\* ------------------------------------------------------------------ main

\* main's locals; exit is the code of the process::exit the loop over the
\* arguments ended with, -1 if it did not
StartLocals ==
    [comp |-> FALSE, interp |-> FALSE, run_prog |-> FALSE, dump_bc |-> FALSE,
     exec_file |-> "out", source_file |-> "", source_file_next |-> FALSE,
     exec_file_next |-> FALSE, exit |-> -1]

\* one iteration of for arg in env::args()
ScanArg(l, arg) ==
    IF arg \in {"-h", "--help"} THEN [l EXCEPT !.exit = 0]
    ELSE IF arg = "compile" THEN [l EXCEPT !.comp = TRUE, !.source_file_next = TRUE]
    ELSE IF arg = "interpret" THEN [l EXCEPT !.interp = TRUE, !.source_file_next = TRUE]
    ELSE IF arg \in {"-r", "--run"} THEN [l EXCEPT !.run_prog = TRUE]
    ELSE IF arg \in {"-b", "--bytecode"} THEN [l EXCEPT !.dump_bc = TRUE]
    ELSE IF arg \in {"-o", "--output"} THEN [l EXCEPT !.exec_file_next = TRUE]
    ELSE IF l.source_file_next THEN [l EXCEPT !.source_file = arg]
    ELSE IF l.exec_file_next THEN [l EXCEPT !.exec_file = arg]
    ELSE l

\* the locals after the whole loop, for a command line without -h
RECURSIVE ScanAll(_)
ScanAll(args) ==
    IF args = <<>> THEN StartLocals ELSE ScanArg(ScanAll(Front(args)), Last(args))

\* the checks after the loop: the message of the usage error, empty if none
ErrMissingFile == "[ERROR] Missing source file."
ErrExclusive == "[ERROR] compile and interpret subcommands are mutually exclusive."
UsageError(l) ==
    IF l.source_file = "" THEN ErrMissingFile
    ELSE IF l.interp /\ l.comp THEN ErrExclusive
    ELSE ""

\* the names read_to_string can read
Files == {"FILE"}

\* how a child process can end: status.code() is Some(0), Some(n) with
\* n # 0, or None when a signal ended it
ExitOk == "Some(0)"
ExitFail == "Some(1)"
ExitSignal == "None"
NotRun == "not run"

\* what nasm can end with on the file: a reference to a label the file does
\* not define is an error; a signal can end it on any file
NasmOutcomes(asm) ==
    IF Build(asm) = 0 THEN {ExitOk, ExitSignal} ELSE {ExitFail, ExitSignal}

\* what ld can end with on the object file
LdOutcomes == {ExitOk, ExitFail, ExitSignal}

\* a variant that takes the end by a signal for a success
ToolFailedOnCode(status) == status = ExitFail

\* the arms of match status.code() in build
ToolFailed(status) == status # ExitOk

\* ------------------------------------------------------------------ emitted code

\* a 64-bit word as an unsigned number: five limbs in base 10000, most
\* significant first; a negative x is the bit pattern 2^64 + x
Limbs(x) == <<0, 0, x \div 100000000, (x \div 10000) % 10000, x % 10000>>
TwoPow64 == <<1844, 6744, 737, 955, 1616>>

RECURSIVE SubLimbs(_, _, _, _)
SubLimbs(A, B, k, borrow) ==
    IF k = 0 THEN <<>>
    ELSE LET d == A[k] - B[k] - borrow IN
         IF d < 0 THEN Append(SubLimbs(A, B, k - 1, 1), d + 10000)
         ELSE Append(SubLimbs(A, B, k - 1, 0), d)

Unsigned(x) ==
    IF x >= 0 THEN Limbs(x) ELSE SubLimbs(TwoPow64, Limbs(-x), 5, 0)

\* the quotient (limbs) and the remainder of an unsigned word divided by 10
RECURSIVE Div10From(_, _, _)
Div10From(L, k, carry) ==
    IF k > Len(L) THEN [q |-> <<>>, r |-> carry]
    ELSE LET cur == carry * 10000 + L[k]
             rest == Div10From(L, k + 1, cur % 10) IN
         [q |-> <<cur \div 10>> \o rest.q, r |-> rest.r]

AtMost9(L) == L[1] = 0 /\ L[2] = 0 /\ L[3] = 0 /\ L[4] = 0 /\ L[5] <= 9

\* the loop .L2 of dump: store the last digit, divide by 10, repeat while
\* the value before the division was above 9 (unsigned)
RECURSIVE DumpDigits(_)
DumpDigits(L) ==
    LET d == Div10From(L, 1, 0) IN
    IF AtMost9(L) THEN <<DigitChar[d.r + 1]>>
    ELSE Append(DumpDigits(d.q), DigitChar[d.r + 1])

\* call dump: the bytes the routine writes to file descriptor 1 for rdi
Dump(out, rdi) == out \o DumpDigits(Unsigned(rdi)) \o <<"\n">>

Regs == {"rax", "rbx", "rcx", "rdx", "rdi"}

\* the process at _start: the registers, the stack the kernel prepared
\* (argc on top, then argv[0], the null that ends argv, then envp[0]) and
\* the flags of the last cmp or test
Machine(pc, regs, stack, zf, lt, out, status) ==
    [pc |-> pc, regs |-> regs, stack |-> stack, zf |-> zf, lt |-> lt,
     out |-> out, status |-> status]

OsStack(ptr) == <<ptr, 0, ptr, 1>>

StartMachine(ptr) ==
    Machine(1, [r \in Regs |-> 0], OsStack(ptr), FALSE, FALSE, <<>>, "running")

\* the line a jump to .addr_n continues at
LabelLine(asm, n) ==
    CHOOSE i \in 1..Len(asm) : asm[i].op = "label" /\ asm[i].n = n

\* mul rbx: rdx:rax = rax * rbx as unsigned words; the high half
MulHigh(a, b) ==
    IF a >= 0 /\ b >= 0 THEN 0
    ELSE IF a < 0 /\ b < 0 THEN a + b
    ELSE IF a = 0 \/ b = 0 THEN 0
    ELSE IF a < 0 THEN b - 1 ELSE a - 1

\* one line of the emitted code
StepLine(asm, m) ==
    LET l == asm[m.pc]
        next == [m EXCEPT !.pc = m.pc + 1]
        set(r, v) == [next EXCEPT !.regs[r] = v] IN
    CASE l.op \in {"label", "end_label"} -> next
      [] l.op = "push_imm" -> [next EXCEPT !.stack = Append(m.stack, l.n)]
      [] l.op = "push" -> [next EXCEPT !.stack = Append(m.stack, m.regs[l.a])]
      [] l.op = "pop" ->
            IF m.stack = <<>> THEN [m EXCEPT !.status = "cut"]
            ELSE [next EXCEPT !.regs[l.a] = Last(m.stack), !.stack = Front(m.stack)]
      [] l.op = "mov" -> set(l.a, l.n)
      [] l.op = "add" -> set(l.a, m.regs[l.a] + m.regs[l.b])
      [] l.op = "sub" -> set(l.a, m.regs[l.a] - m.regs[l.b])
      [] l.op = "xor" -> set(l.a, 0)
      [] l.op = "not" -> set(l.a, -m.regs[l.a] - 1)
      [] l.op = "mul" ->
            [next EXCEPT !.regs["rax"] = m.regs["rax"] * m.regs[l.a],
                         !.regs["rdx"] = MulHigh(m.regs["rax"], m.regs[l.a])]
      [] l.op = "div" ->
            LET n == m.regs["rax"]
                d == m.regs[l.a] IN
            IF d = 0 THEN [m EXCEPT !.status = "sigfpe"]
            ELSE IF n >= 0 /\ d > 0
                 THEN [next EXCEPT !.regs["rax"] = n \div d, !.regs["rdx"] = n % d]
            ELSE IF n < 0 /\ d > 0 THEN [m EXCEPT !.status = "cut"]
            ELSE IF n >= 0 \/ n < d
                 THEN [next EXCEPT !.regs["rax"] = 0, !.regs["rdx"] = n]
            ELSE [next EXCEPT !.regs["rax"] = 1, !.regs["rdx"] = n - d]
      [] l.op \in {"cmp", "test"} ->
            LET x == m.regs[l.a]
                y == IF l.op = "cmp" THEN m.regs[l.b] ELSE 0 IN
            [next EXCEPT !.zf = (x = y), !.lt = (x < y)]
      [] l.op \in {"cmove", "cmovne", "cmovg", "cmovge", "cmovl", "cmovle"} ->
            LET take == CASE l.op = "cmove" -> m.zf
                          [] l.op = "cmovne" -> ~m.zf
                          [] l.op = "cmovg" -> ~m.zf /\ ~m.lt
                          [] l.op = "cmovge" -> ~m.lt
                          [] l.op = "cmovl" -> m.lt
                          [] l.op = "cmovle" -> m.zf \/ m.lt IN
            IF take THEN set(l.a, m.regs[l.b]) ELSE next
      [] l.op = "jz" -> IF m.zf THEN [m EXCEPT !.pc = LabelLine(asm, l.n)] ELSE next
      [] l.op = "jmp" -> [m EXCEPT !.pc = LabelLine(asm, l.n)]
      [] l.op = "call_dump" -> [next EXCEPT !.out = Dump(m.out, m.regs["rdi"])]
      [] l.op = "syscall" -> [m EXCEPT !.status = "exited"]
      [] l.op = "ret" -> [m EXCEPT !.status = "cut"]

\* the lines of one instruction: from the line at pc up to the next label
RECURSIVE RunBlock(_, _)
RunBlock(asm, m) ==
    LET m1 == StepLine(asm, m) IN
    IF m1.status # "running" THEN m1
    ELSE IF asm[m1.pc].op \in {"label", "end_label"} THEN m1
    ELSE RunBlock(asm, m1)

\* ------------------------------------------------------------------ state

VARIABLES
    args,       \* env::args(): the program's name and its arguments
    argi,       \* how many of them main's loop has processed
    comp,       \* main's locals
    interp,
    run_prog,
    dump_bc,
    exec_file,
    source_file,
    source_file_next,
    exec_file_next,
    exitcode,   \* the code main or compile gave to process::exit, -1 if none
    dumps,      \* how many times the bytecode was dumped
    nasm,       \* how the assembler ended
    ld,         \* how the linker ended
    source,     \* the text of the source file
    build,      \* the profile the interpreter was built with
    tokens,     \* the lexer's result, the parser's input
    pc,         \* where the process is: args, usage, lex, panicked, lexed, parse, abort,
                \* interpret, codegen, build, link, exited, run, finished
    pos,        \* the parser's loop index ip
    program,    \* the parser's program vector
    crossref,   \* the parser's cross-reference stack
    err,        \* the diagnostic the parser ended with, empty if none
    stack,      \* the interpreter's operand stack
    iip,        \* the interpreter's ip
    out,        \* the bytes written to the interpreter's sink
    istatus,    \* idle, running, done, panic, exit1, cut
    asm,        \* the lines of the assembly file after _start:
    cstatus,    \* idle, emitted, panic
    bstatus,    \* idle, ok, failed
    m           \* the process running the emitted code

mainVars == <<args, argi, comp, interp, run_prog, dump_bc, exec_file, source_file,
              source_file_next, exec_file_next>>
procVars == <<exitcode, dumps, nasm, ld>>

vars == <<mainVars, procVars, source, build, tokens, pc, pos, program, crossref, err,
          stack, iip, out, istatus, asm, cstatus, bstatus, m>>

inputVars == <<source, build, tokens>>
parserVars == <<pos, program, crossref, err>>
interpVars == <<stack, iip, out, istatus>>
compileVars == <<asm, cstatus, bstatus, m>>

\* token alphabets of the specifications
Alphabet == {"0", "-1", ".", "if", "else", "while", "do", "end"}
CtlAlphabet == {"if", "else", "while", "do", "end"}
IfAlphabet == {"1", "if", "else", "end"}

\* values the kernel may have left in a pointer slot of the initial stack
PtrWords == {5, 6}

\* main's locals hold the values of l
InitLocals(l) ==
    /\ comp = l.comp
    /\ interp = l.interp
    /\ run_prog = l.run_prog
    /\ dump_bc = l.dump_bc
    /\ exec_file = l.exec_file
    /\ source_file = l.source_file
    /\ source_file_next = l.source_file_next
    /\ exec_file_next = l.exec_file_next

\* nothing has been parsed, run, emitted or built yet
InitRest ==
    /\ exitcode = -1
    /\ dumps = 0
    /\ nasm = NotRun
    /\ ld = NotRun
    /\ pos = 0
    /\ program = <<>>
    /\ crossref = <<>>
    /\ err = ""
    /\ stack = <<>>
    /\ iip = 0
    /\ out = <<>>
    /\ istatus = "idle"
    /\ asm = <<>>
    /\ cstatus = "idle"
    /\ bstatus = "idle"
    /\ m = [StartMachine(0) EXCEPT !.status = "idle"]

\* the tests call parser, interpret and compile themselves, without main:
\* both back ends are run on the program, the interpreter first
BothBackEnds ==
    [StartLocals EXCEPT !.comp = TRUE, !.interp = TRUE, !.run_prog = TRUE,
                        !.source_file = "FILE"]

InitWith(inputs) ==
    /\ args = <<>>
    /\ argi = 0
    /\ InitLocals(BothBackEnds)
    /\ source = <<>>
    /\ build \in Profiles
    /\ tokens \in inputs
    /\ pc = "parse"
    /\ InitRest

Init == InitWith(SeqsUpTo(Alphabet, MaxTokens))
InitCtl == InitWith(SeqsUpTo(CtlAlphabet, MaxCtlTokens))
InitIf == InitWith(SeqsUpTo(IfAlphabet, MaxIfTokens))

\* ------------------------------------------------------------------ actions

\* a variant that prints the diagnostic and goes on with the next token
ParserStepNoExit ==
    /\ pc = "parse"
    /\ pos < Len(tokens)
    /\ LET r == ParseToken(program, crossref, pos, At(tokens, pos)) IN
        /\ program' = r.program
        /\ crossref' = r.crossref
        /\ err' = r.err
        /\ pos' = pos + 1
        /\ pc' = "parse"
    /\ UNCHANGED <<mainVars, procVars, inputVars, interpVars, compileVars>>

\* parser: one iteration of for (ip, tok) in tokens.iter().enumerate()
ParserStep ==
    /\ pc = "parse"
    /\ pos < Len(tokens)
    /\ LET r == ParseToken(program, crossref, pos, At(tokens, pos)) IN
        /\ program' = r.program
        /\ crossref' = r.crossref
        /\ err' = r.err
        /\ pos' = IF r.err = "" THEN pos + 1 ELSE pos
        /\ pc' = IF r.err = "" THEN "parse" ELSE "abort"
    /\ UNCHANGED <<mainVars, procVars, inputVars, interpVars, compileVars>>

\* parser: the loop is over and the program is returned to the caller
\* and main goes on: the bytecode is dumped if that was asked for, and the
\* back end that was asked for is called
ParserReturn ==
    /\ pc = "parse"
    /\ pos = Len(tokens)
    /\ dumps' = IF dump_bc THEN dumps + 1 ELSE dumps
    /\ pc' = IF interp THEN "interpret" ELSE IF comp THEN "codegen" ELSE "finished"
    /\ istatus' = IF interp THEN "running" ELSE istatus
    /\ UNCHANGED <<mainVars, exitcode, nasm, ld, inputVars, parserVars, stack, iip, out,
                   compileVars>>

\* interpret: one iteration of while ip < program.len()
InterpretStep ==
    /\ pc = "interpret"
    /\ istatus = "running"
    /\ iip < Len(program)
    /\ LET s == InterpretOne(program, stack, iip, out, build) IN
        /\ stack' = s.stack
        /\ iip' = s.ip
        /\ out' = s.out
        /\ istatus' = s.status
        /\ pc' = IF s.status = "running" THEN "interpret"
                 ELSE IF comp THEN "codegen" ELSE "finished"
    /\ UNCHANGED <<mainVars, procVars, inputVars, parserVars, compileVars>>

\* interpret: the loop condition fails and the function returns
InterpretReturn ==
    /\ pc = "interpret"
    /\ istatus = "running"
    /\ iip >= Len(program)
    /\ istatus' = "done"
    /\ pc' = IF comp THEN "codegen" ELSE "finished"
    /\ UNCHANGED <<mainVars, procVars, inputVars, parserVars, stack, iip, out, compileVars>>

\* compile: codegen writes the assembly file
CodegenRun ==
    /\ pc = "codegen"
    /\ LET r == Codegen(program) IN
        /\ asm' = r.asm
        /\ cstatus' = r.status
        /\ pc' = IF r.status = "emitted" THEN "build" ELSE "finished"
    /\ UNCHANGED <<mainVars, procVars, inputVars, parserVars, interpVars, bstatus, m>>

\* build: nasm runs on the assembly file; when it fails build returns 1 and
\* compile dumps the bytecode and exits
AssemblerRun ==
    /\ pc = "build"
    /\ \E status \in NasmOutcomes(asm) :
        /\ nasm' = status
        /\ bstatus' = IF ToolFailed(status) THEN "failed" ELSE bstatus
        /\ dumps' = IF ToolFailed(status) THEN dumps + 1 ELSE dumps
        /\ exitcode' = IF ToolFailed(status) THEN 1 ELSE exitcode
        /\ pc' = IF ToolFailed(status) THEN "exited" ELSE "link"
    /\ UNCHANGED <<mainVars, ld, inputVars, parserVars, interpVars, asm, cstatus, m>>

\* build: ld runs on the object file and build returns; compile dumps the
\* bytecode and exits on 1, and runs the executable if that was asked for
LinkerRun ==
    /\ pc = "link"
    /\ \E status \in LdOutcomes :
        /\ ld' = status
        /\ bstatus' = IF ToolFailed(status) THEN "failed" ELSE "ok"
        /\ dumps' = IF ToolFailed(status) THEN dumps + 1 ELSE dumps
        /\ exitcode' = IF ToolFailed(status) THEN 1 ELSE exitcode
        /\ pc' = IF ToolFailed(status) THEN "exited"
                 ELSE IF run_prog THEN "run" ELSE "finished"
    /\ UNCHANGED <<mainVars, nasm, inputVars, parserVars, interpVars, asm, cstatus, m>>

\* the executable is started
ExecuteStart ==
    /\ pc = "run"
    /\ m.status = "idle"
    /\ \E ptr \in PtrWords : m' = StartMachine(ptr)
    /\ UNCHANGED <<mainVars, procVars, inputVars, pc, parserVars, interpVars, asm, cstatus, bstatus>>

\* the executable runs the lines of one instruction
ExecuteStep ==
    /\ pc = "run"
    /\ m.status = "running"
    /\ LET m1 == RunBlock(asm, m)
           own == SubSeq(m1.stack, Len(OsStack(0)) + 1, Len(m1.stack))
           m2 == IF m1.status = "running" /\ OutOfModel(own, m1.out)
                 THEN [m1 EXCEPT !.status = "cut"] ELSE m1 IN
        /\ m' = m2
        /\ pc' = IF m2.status = "running" THEN "run" ELSE "finished"
    /\ UNCHANGED <<mainVars, procVars, inputVars, parserVars, interpVars, asm, cstatus, bstatus>>

NextParser == ParserStep \/ ParserReturn

Next ==
    \/ ParserStep
    \/ ParserReturn
    \/ InterpretStep
    \/ InterpretReturn
    \/ CodegenRun
    \/ AssemblerRun
    \/ LinkerRun
    \/ ExecuteStart
    \/ ExecuteStep

\* the whole pipeline on short programs over Alphabet
Spec == Init /\ [][Next]_vars
\* the parser alone on sequences of control-flow tokens
SpecCtl == InitCtl /\ [][NextParser]_vars
\* the parser alone on sequences of if, else, end and a literal
SpecIf == InitIf /\ [][NextParser]_vars

\* ------------------------------------------------------------------ programs that are run

\* the literal of n in a source text, for the n the programs below use
NatText == <<"0", "1", "2", "3", "4", "5", "6", "7", "8", "9", "10", "11", "12">>
NegText == <<"-1", "-2", "-3", "-4", "-5">>
IntText(n) == IF n < 0 THEN NegText[-n] ELSE NatText[n + 1]

BinaryTokens == {"+", "-", "*", "/", "=", "!=", ">", ">=", "<", "<="}
ConsumerTokens == BinaryTokens \cup {"!", "dup", "."}
Operands == (-MaxOperand)..MaxOperand

\* one operation on every pair of operands, the result dumped; NOT and DUP
\* on every operand; dumps of longer numbers; every consumer on a stack
\* that holds too few values, followed by a dump that must not happen
OpsPrograms ==
    {<<IntText(b), IntText(a), op, ".">> : b \in Operands, a \in Operands, op \in BinaryTokens}
    \cup {<<IntText(a), "!", ".", "1", ".">> : a \in Operands}
    \cup {<<IntText(a), "dup", ".", ".">> : a \in Operands}
    \cup {<<"10", ".", "420", ".", "-5", ".", "0", ".">>}
    \cup {<<op, "1", ".">> : op \in ConsumerTokens}
    \cup {<<"1", op, "1", ".">> : op \in BinaryTokens}
    \cup {<<"if", "1", ".", "end", "1", ".">>,
          <<"1", "while", "do", "1", ".", "end", "1", ".">>}

\* the bodies of the branches: empty, a dump, an if block, an if/else block
BranchBodies ==
    {<<>>, <<"1", ".">>, <<"2", ".">>, <<"0", "if", "4", ".", "end">>,
     <<"1", "if", "5", ".", "else", "6", ".", "end">>}
CondValues == {-1, 0, 1, 2}
NoElse == <<"no else">>

\* c if A else B end 3 .   and   c if A end 3 .
BranchProgram(c, A, B) ==
    <<IntText(c), "if">> \o A
    \o (IF B = NoElse THEN <<>> ELSE <<"else">> \o B) \o <<"end", "3", ".">>

BranchPrograms ==
    {BranchProgram(c, A, B) :
        c \in CondValues, A \in BranchBodies, B \in BranchBodies \cup {NoElse}}

\* n while dup 0 > do dup . 1 - end 420 .
LoopProgram(n) ==
    <<IntText(n), "while", "dup", "0", ">", "do", "dup", ".", "1", "-", "end",
      "420", ".">>

LoopPrograms == {LoopProgram(n) : n \in 0..MaxCount}

\* first dup + ... dup +, k doublings of the first literal
RECURSIVE Doubling(_, _)
Doubling(first, k) ==
    IF k = 0 THEN <<first>> ELSE Doubling(first, k - 1) \o <<"dup", "+">>

\* programs whose last operation has a result at or beyond the ends of the
\* machine integer's range: 2^(w-2) + 2^(w-2), and the least integer
\* divided by -1, multiplied by -1, by 1, and decremented
WidePrograms ==
    {Doubling("1", k) \o <<".">> : k \in {WordBits - 2, WordBits - 1}}
    \cup {Doubling("-1", WordBits - 1) \o <<IntText(a), op, ".">> :
             a \in {-1, 1}, op \in {"/", "*", "-", "+"}}

InitOps == InitWith(OpsPrograms)
InitBranch == InitWith(BranchPrograms)
InitLoop == InitWith(LoopPrograms)
InitWide == InitWith(WidePrograms)

NextInterp == ParserStep \/ ParserReturn \/ InterpretStep \/ InterpretReturn

\* the interpreter on one operation at a time
SpecOps == InitOps /\ [][NextInterp]_vars
\* the interpreter on if blocks
SpecBranch == InitBranch /\ [][NextInterp]_vars
\* the interpreter on the countdown loop; a running process takes its next step
SpecLoop == InitLoop /\ [][NextInterp]_vars /\ WF_vars(NextInterp)
\* the interpreter on operations at the ends of the integer range
SpecWide == InitWide /\ [][NextInterp]_vars

\* programs whose first token is a `do` with nothing open, which the parser
\* skips: every later instruction sits one position before its token
SkipAlphabet == {"0", "-1", "if", "end"}
SkippedDoPrograms == {<<"do">> \o body : body \in SeqsUpTo(SkipAlphabet, MaxSkipTokens)}
InitSkip == InitWith(SkippedDoPrograms)
SpecSkip == InitSkip /\ [][Next]_vars

\* ------------------------------------------------------------------ the lexer's specification

SourceChars == {"a", "/", " ", "\n"}

\* main has scanned interpret FILE and is about to call the lexer
InitLex ==
    /\ args = <<"rorth", "interpret", "FILE">>
    /\ argi = Len(args)
    /\ InitLocals(ScanAll(args))
    /\ source \in SeqsUpTo(SourceChars, MaxSource)
    /\ build \in Profiles
    /\ tokens = <<>>
    /\ pc = "lex"
    /\ InitRest

\* lexer: the file is read and its text is turned into tokens; the expect on
\* read_to_string panics when the file cannot be read
LexerRun ==
    /\ pc = "lex"
    /\ tokens' = IF source_file \in Files THEN Lexer(source) ELSE tokens
    /\ pc' = IF source_file \in Files THEN "lexed" ELSE "panicked"
    /\ UNCHANGED <<mainVars, procVars, source, build, parserVars, interpVars, compileVars>>

NextLex == LexerRun

\* the lexer on short texts of a letter, a slash, a blank and a newline
SpecLex == InitLex /\ [][NextLex]_vars

\* ------------------------------------------------------------------ main's specification

\* main's locals as a record
Locals ==
    [comp |-> comp, interp |-> interp, run_prog |-> run_prog, dump_bc |-> dump_bc,
     exec_file |-> exec_file, source_file |-> source_file,
     source_file_next |-> source_file_next, exec_file_next |-> exec_file_next,
     exit |-> -1]

\* main: one iteration of for arg in env::args(); -h prints the usage and exits
ArgStep ==
    /\ pc = "args"
    /\ argi < Len(args)
    /\ LET l == ScanArg(Locals, At(args, argi)) IN
        /\ comp' = l.comp
        /\ interp' = l.interp
        /\ run_prog' = l.run_prog
        /\ dump_bc' = l.dump_bc
        /\ exec_file' = l.exec_file
        /\ source_file' = l.source_file
        /\ source_file_next' = l.source_file_next
        /\ exec_file_next' = l.exec_file_next
        /\ exitcode' = l.exit
        /\ pc' = IF l.exit = -1 THEN "args" ELSE "usage"
    /\ argi' = argi + 1
    /\ UNCHANGED <<args, dumps, nasm, ld, inputVars, parserVars, interpVars, compileVars>>

\* main: the loop is over; a usage error prints the usage and exits with 1,
\* otherwise the lexer is called next
UsageCheck ==
    /\ pc = "args"
    /\ argi = Len(args)
    /\ exitcode' = IF UsageError(Locals) # "" THEN 1 ELSE exitcode
    /\ pc' = IF UsageError(Locals) # "" THEN "usage" ELSE "lex"
    /\ UNCHANGED <<mainVars, dumps, nasm, ld, inputVars, parserVars, interpVars, compileVars>>

\* the words of the command lines
ArgWords == {"compile", "interpret", "-r", "-b", "-o", "-h", "FILE", "NAME"}

\* compile FILE followed by the options, short or long, in any order
CompileOptions ==
    LET r == {<<"-r">>, <<"--run">>}
        o == {<<"-o", "NAME">>, <<"--output", "NAME">>}
        b == {<<"-b">>} IN
    {<<>>} \cup r \cup o \cup b
    \cup {x \o y : x \in r, y \in o} \cup {y \o x : x \in r, y \in o}
    \cup {x \o y : x \in b, y \in o} \cup {y \o x : x \in b, y \in o}
CompileLines == {<<"rorth", "compile", "FILE">> \o opts : opts \in CompileOptions}

\* the program's name and up to MaxArgs words, and the lines of compile
CommandLines ==
    {<<"rorth">> \o a : a \in SeqsUpTo(ArgWords, MaxArgs)} \cup CompileLines

\* the texts of the source file
MainSources == {<<>>, <<"a", " ", "a">>}

InitMain ==
    /\ args \in CommandLines
    /\ argi = 0
    /\ InitLocals(StartLocals)
    /\ source \in MainSources
    /\ build \in Profiles
    /\ tokens = <<>>
    /\ pc = "args"
    /\ InitRest

NextMain == ArgStep \/ UsageCheck \/ LexerRun

\* main from the command line to the call of the lexer
SpecMain == InitMain /\ [][NextMain]_vars

\* ------------------------------------------------------------------ the compiler's specification

\* main has scanned compile FILE, with or without -r
InitCompile ==
    /\ args \in {<<"rorth", "compile", "FILE">>, <<"rorth", "compile", "FILE", "-r">>}
    /\ argi = Len(args)
    /\ InitLocals(ScanAll(args))
    /\ source = <<>>
    /\ build \in Profiles
    /\ tokens \in SeqsUpTo(Alphabet, MaxTokens)
    /\ pc = "parse"
    /\ InitRest

NextCompile ==
    \/ ParserStep
    \/ ParserReturn
    \/ CodegenRun
    \/ AssemblerRun
    \/ LinkerRun
    \/ ExecuteStart
    \/ ExecuteStep

\* parse and compile, as main does for the compile subcommand
SpecCompile == InitCompile /\ [][NextCompile]_vars

\* ------------------------------------------------------------------ vocabulary of the properties

\* the parser has returned a program to its caller
Returned == pc \in {"interpret", "codegen", "build", "link", "run", "finished", "exited"}

\* the token the parser is about to process
AtToken(tok) == pc = "parse" /\ pos < Len(tokens) /\ At(tokens, pos) = tok

\* cross-reference entry e refers to an instruction with this opcode
RefersTo(e, opcode) == InBounds(program, e) /\ At(program, e).opcode = opcode

\* the grammar of blocks, on token texts: if .. [else ..] end and
\* while .. do .. end, properly nested; open is the sequence of the parts
\* of the blocks that are open, innermost last
RECURSIVE Nested(_, _, _)
Nested(toks, k, open) ==
    IF k > Len(toks) THEN open = <<>>
    ELSE LET t == toks[k] IN
         IF t \in {"if", "while"} THEN Nested(toks, k + 1, Append(open, t))
         ELSE IF t = "else"
              THEN open # <<>> /\ Last(open) = "if"
                   /\ Nested(toks, k + 1, Append(Front(open), "else"))
         ELSE IF t = "do"
              THEN open # <<>> /\ Last(open) = "while"
                   /\ Nested(toks, k + 1, Append(Front(open), "do"))
         ELSE IF t = "end"
              THEN open # <<>> /\ Last(open) \in {"if", "else", "do"}
                   /\ Nested(toks, k + 1, Front(open))
         ELSE Nested(toks, k + 1, open)

WellFormed(toks) == Nested(toks, 1, <<>>)

\* the first position j >= k of p, outside every block opened at or after k,
\* whose opcode is in stops; 0 if there is none
RECURSIVE ScanForward(_, _, _, _)
ScanForward(p, k, depth, stops) ==
    IF k > Len(p) THEN 0
    ELSE IF depth = 0 /\ p[k].opcode \in stops THEN k
    ELSE IF p[k].opcode \in {"OP_IF", "OP_WHILE"}
         THEN ScanForward(p, k + 1, depth + 1, stops)
    ELSE IF p[k].opcode = "OP_END" THEN ScanForward(p, k + 1, depth - 1, stops)
    ELSE ScanForward(p, k + 1, depth, stops)

\* the position of the IF or WHILE that opens the block the instruction at
\* k + 1 is in, scanning backward from k; 0 if there is none
RECURSIVE ScanBackward(_, _, _)
ScanBackward(p, k, depth) ==
    IF k < 1 THEN 0
    ELSE IF p[k].opcode = "OP_END" THEN ScanBackward(p, k - 1, depth + 1)
    ELSE IF p[k].opcode \in {"OP_IF", "OP_WHILE"}
         THEN IF depth = 0 THEN k ELSE ScanBackward(p, k - 1, depth - 1)
    ELSE ScanBackward(p, k - 1, depth)

\* the END at position k closes a while/do block
ClosesDo(p, k) ==
    LET o == ScanBackward(p, k - 1, 0) IN o # 0 /\ p[o].opcode = "OP_WHILE"

\* positions (from 1) of the instructions with an opcode in ops
Positions(p, ops) == {k \in 1..Len(p) : p[k].opcode \in ops}

\* ------------------------------------------------------------------ C1

\* C1 (as claimed): in every program the parser returns, every IF, ELSE, DO
\* and PUSH has exactly one operand, every END that closes a DO has exactly
\* one, and every END that closes an IF/ELSE has none; unclosed blocks included.
C1_OperandCounts ==
    Returned =>
        \A k \in 1..Len(program) :
            /\ program[k].opcode \in {"OP_IF", "OP_ELSE", "OP_DO", "OP_PUSH"}
                  => Len(program[k].operands) = 1
            /\ program[k].opcode = "OP_END"
                  => Len(program[k].operands) = Bool2Int(ClosesDo(program, k))

\* ------------------------------------------------------------------ C2

\* the operand an opener at position k must hold: the index (from 0) of
\* its closer, found by counting block depth
CloserIndex(p, k, stops) == ScanForward(p, k + 1, 0, stops) - 1

\* C2: in the program returned for a well-formed token sequence, the operand
\* of an IF is the index of its ELSE or else of its END, the operand of an
\* ELSE and of a DO is the index of its END, and the operand of an END that
\* closes a DO is the index of the WHILE of that loop.
C2_OperandsLandOnClosers ==
    (Returned /\ WellFormed(tokens)) =>
        \A k \in 1..Len(program) :
            LET ins == program[k] IN
            /\ ins.opcode = "OP_IF"
                  => ins.operands = <<CloserIndex(program, k, {"OP_ELSE", "OP_END"})>>
            /\ ins.opcode \in {"OP_ELSE", "OP_DO"}
                  => ins.operands = <<CloserIndex(program, k, {"OP_END"})>>
            /\ (ins.opcode = "OP_END" /\ ClosesDo(program, k))
                  => ins.operands = <<ScanBackward(program, k - 1, 0) - 1>>

\* a returned well-formed program with an if/else/end and a loop in it
C2_Witness ==
    /\ Returned
    /\ WellFormed(tokens)
    /\ \E k \in Positions(program, {"OP_IF"}) :
          At(program, program[k].operands[1]).opcode = "OP_ELSE"
    /\ \E k \in Positions(program, {"OP_END"}) :
          /\ Len(program[k].operands) = 1
          /\ At(program, program[k].operands[1]).opcode = "OP_WHILE"

\* ------------------------------------------------------------------ C3

HasNotOrDiv(p) == Positions(p, {"OP_NOT", "OP_DIV"}) # {}

\* C3 (as claimed): for a program without NOT and DIV, when the interpreter
\* has run it to its end and the emitted executable has exited, the bytes on
\* the sink are the bytes on the executable's standard output; negative
\* values included.
C3_BackendsAgree ==
    (istatus = "done" /\ m.status = "exited" /\ ~HasNotOrDiv(program))
        => out = m.out

\* ------------------------------------------------------------------ C4

\* C4 (as claimed): in the emitted assembly every instruction of the program
\* has its label .addr_ip, and every label a jump refers to is defined and
\* is the ip of an instruction.
C4_LabelsDefined ==
    cstatus = "emitted" =>
        /\ \A k \in 1..Len(program) : program[k].ip \in DefinedLabels(asm)
        /\ JumpTargets(asm) \subseteq DefinedLabels(asm)
        /\ JumpTargets(asm) \subseteq {program[k].ip : k \in 1..Len(program)}

\* ------------------------------------------------------------------ C5

\* C5 (as claimed): the parser keeps one instruction per processed token, the
\* instruction at position i has ip = i, and the entries of the
\* cross-reference stack and the stored operands are positions of the program.
C5_OneInstructionPerToken ==
    pc # "abort" =>
        /\ Len(program) = pos
        /\ \A i \in 0..(Len(program) - 1) : At(program, i).ip = i
        /\ \A j \in 1..Len(crossref) : InBounds(program, crossref[j])
        /\ \A k \in Positions(program, {"OP_IF", "OP_ELSE", "OP_DO", "OP_END"}) :
              \A j \in 1..Len(program[k].operands) :
                  InBounds(program, program[k].operands[j])

\* ------------------------------------------------------------------ C6

\* C6 (as claimed): when the parser reaches do and the cross-reference stack
\* is empty or its top entry does not refer to a WHILE, the parse aborts.
C6_DoWithoutWhileAborts ==
    [][(AtToken("do") /\ (crossref = <<>> \/ ~RefersTo(Last(crossref), "OP_WHILE")))
          => pc' = "abort"]_vars

\* ------------------------------------------------------------------ C7

\* C7: when the parser reaches else and the cross-reference stack is empty
\* or its top entry does not refer to an IF, the parse aborts, and an aborted
\* parse returns nothing; otherwise the parse goes on, the IF the entry
\* refers to has the ip of the ELSE as its only operand, and that ip has
\* replaced the entry on the stack.
C7_ElseRule ==
    [][/\ AtToken("else") =>
            IF crossref = <<>> \/ ~RefersTo(Last(crossref), "OP_IF")
            THEN pc' = "abort"
            ELSE /\ pc' = "parse"
                 /\ At(program', Last(crossref)).operands = <<pos>>
                 /\ crossref' = Append(Front(crossref), pos)
                 /\ Last(program') = Instruction("OP_ELSE", <<>>, pos)
       /\ pc = "abort" => pc' = "abort"]_vars

\* an else has been accepted, and the IF before it holds its index
C7_Witness ==
    /\ pc = "parse"
    /\ pos >= 2
    /\ At(tokens, pos - 1) = "else"
    /\ crossref # <<>> /\ Last(crossref) = pos - 1
    /\ \E k \in Positions(program, {"OP_IF"}) : program[k].operands = <<pos - 1>>

\* ------------------------------------------------------------------ C8

\* C8 (as claimed): at end the parse aborts exactly when the cross-reference
\* stack is empty or the popped entry refers to a WHILE; otherwise the end is
\* accepted and exactly one entry is popped.
C8_EndAbortsExactly ==
    [][AtToken("end") =>
          /\ pc' = "abort" <=> (crossref = <<>> \/ RefersTo(Last(crossref), "OP_WHILE"))
          /\ pc' # "abort" => crossref' = Front(crossref)]_vars

\* ------------------------------------------------------------------ C9

WholeBlocks(toks, a, b) == WellFormed(SubSeq(toks, a + 1, b - 1))

\* C10: for a well-formed nesting of if .. end and if .. else .. end blocks
\* the cross-reference stack is empty when the parse ends; every IF points to
\* an ELSE or END and every ELSE to an END such that the tokens in between
\* are whole blocks; every ELSE is the target of exactly one IF and every END
\* of exactly one IF or ELSE; and no END holds an operand.
C10_IfChainsPairUp ==
    (Returned /\ WellFormed(tokens)) =>
        /\ crossref = <<>>
        /\ \A k \in Positions(program, {"OP_IF", "OP_ELSE"}) :
              /\ Len(program[k].operands) = 1
              /\ LET t == program[k].operands[1] + 1 IN
                 /\ t \in k + 1..Len(program)
                 /\ program[t].opcode \in
                       (IF program[k].opcode = "OP_IF" THEN {"OP_ELSE", "OP_END"}
                        ELSE {"OP_END"})
                 /\ WholeBlocks(tokens, k, t)
        /\ \A t \in Positions(program, {"OP_ELSE"}) :
              Cardinality({k \in Positions(program, {"OP_IF"}) :
                              program[k].operands = <<t - 1>>}) = 1
        /\ \A t \in Positions(program, {"OP_END"}) :
              /\ Cardinality({k \in Positions(program, {"OP_IF", "OP_ELSE"}) :
                                 program[k].operands = <<t - 1>>}) = 1
              /\ program[t].operands = <<>>

\* a returned program with a block nested in the then-branch and one in the
\* else-branch of an outer if
C10_Witness ==
    /\ Returned
    /\ tokens = <<"if", "if", "end", "else", "if", "end", "end">>
    /\ program[1].operands = <<3>>
    /\ program[4].operands = <<6>>

\* ------------------------------------------------------------------ C11

\* the parts of the blocks of toks that are open before position k,
\* innermost last (toks well formed)
RECURSIVE OpenBefore(_, _)
OpenBefore(toks, k) ==
    IF k <= 1 THEN <<>>
    ELSE LET open == OpenBefore(toks, k - 1)
             t == toks[k - 1] IN
         IF t \in {"if", "while"} THEN Append(open, t)
         ELSE IF t \in {"else", "do"} THEN Append(Front(open), t)
         ELSE IF t = "end" THEN Front(open)
         ELSE open

\* some while block of toks lies in the body of another loop
LoopInLoopBody(toks) ==
    \E k \in 1..Len(toks) :
        /\ toks[k] = "while"
        /\ \E i \in 1..Len(OpenBefore(toks, k)) : OpenBefore(toks, k)[i] = "do"

\* every DO of p holds the index of its own END and every END that closes a
\* loop holds the index of the WHILE of that loop
LoopsResolved(p) ==
    \A k \in 1..Len(p) :
        /\ p[k].opcode = "OP_DO"
              => p[k].operands = <<CloserIndex(p, k, {"OP_END"})>>
        /\ (p[k].opcode = "OP_END" /\ ClosesDo(p, k))
              => p[k].operands = <<ScanBackward(p, k - 1, 0) - 1>>

Executing(opcodes) ==
    /\ pc = "interpret"
    /\ istatus = "running"
    /\ iip < Len(program)
    /\ At(program, iip).opcode \in opcodes

\* the lines a body writes when it is executed
BodyOut(body) ==
    CASE body = <<"1", ".">> -> <<"1", "\n">>
      [] body = <<"2", ".">> -> <<"2", "\n">>
      [] body = <<"1", "if", "5", ".", "else", "6", ".", "end">> -> <<"5", "\n">>
      [] OTHER -> <<>>

\* what c if A else B end 3 . must write: the lines of exactly one branch,
\* then the line of the code after the block
BranchOut(c, A, B) ==
    (IF c # 0 THEN BodyOut(A) ELSE IF B = NoElse THEN <<>> ELSE BodyOut(B))
    \o <<"3", "\n">>

\* C12: in a balanced if block a nonzero condition makes IF continue with
\* the first instruction of A and the ELSE reached at the end of A jump past
\* the END; a zero condition makes IF continue right after the ELSE, or
\* right after the END when there is no else; END of an if block falls
\* through.  So exactly the lines of one branch are written, the run goes on
\* after the block and ends normally.
C12_OneBranchRuns ==
    [][/\ Executing({"OP_IF"}) =>
            iip' = (IF Last(stack) # 0 THEN iip + 1
                    ELSE CloserIndex(program, iip + 1, {"OP_ELSE", "OP_END"}) + 1)
       /\ Executing({"OP_ELSE"}) =>
            iip' = CloserIndex(program, iip + 1, {"OP_END"}) + 1
       /\ Executing({"OP_END"}) => iip' = iip + 1
       /\ istatus' \in {"idle", "running", "done"}
       /\ istatus' = "done" =>
            \E c \in CondValues, A \in BranchBodies, B \in BranchBodies \cup {NoElse} :
                tokens = BranchProgram(c, A, B) /\ out' = BranchOut(c, A, B)
      ]_vars

\* a run that skipped A, ran B, skipped the else-branch of the block in B and
\* went on after the outer END
C12_Witness ==
    /\ istatus = "done"
    /\ tokens = BranchProgram(0, <<"2", ".">>,
                              <<"1", "if", "5", ".", "else", "6", ".", "end">>)
    /\ out = <<"5", "\n", "3", "\n">>

\* ------------------------------------------------------------------ C13

\* the lines n, n - 1, .., 1
RECURSIVE CountDown(_)
CountDown(n) ==
    IF n = 0 THEN <<>> ELSE FormatI64(n) \o <<"\n">> \o CountDown(n - 1)

\* C13: WHILE does nothing; DO pops the value of the condition and goes on
\* with the body when it is nonzero and with the instruction after the END
\* when it is zero; the END of the loop goes back to the first instruction
\* of the condition.  For every n in 0..MaxCount the run of
\* n while dup 0 > do dup . 1 - end 420 .  ends normally, having written
\* n, n - 1, .., 1 and then 420, one number a line.
C13_CountdownTerminates ==
    /\ [][/\ Executing({"OP_WHILE"}) => (iip' = iip + 1 /\ UNCHANGED <<stack, out>>)
          /\ Executing({"OP_DO"}) =>
                iip' = (IF Last(stack) # 0 THEN iip + 1
                        ELSE CloserIndex(program, iip + 1, {"OP_END"}) + 1)
          /\ Executing({"OP_END"}) => iip' = ScanBackward(program, iip, 0)
         ]_vars
    /\ <>(/\ istatus = "done"
          /\ out = CountDown(IntLiteral[tokens[1]]) \o <<"4", "2", "0", "\n">>)

\* the run for n = 3 has ended
C13_Witness ==
    /\ istatus = "done"
    /\ tokens = LoopProgram(3)
    /\ out = <<"3", "\n", "2", "\n", "1", "\n", "4", "2", "0", "\n">>

\* ------------------------------------------------------------------ C14

Abs(x) == IF x < 0 THEN -x ELSE x

\* q is b / a truncated toward zero: the remainder is smaller than a in
\* magnitude and is zero or has the sign of b
IsTruncQuotient(q, b, a) ==
    LET rem == b - q * a IN
    /\ Abs(rem) < Abs(a)
    /\ rem = 0 \/ (rem < 0) = (b < 0)

\* the value on top of the stack and the one below it
Top(s) == s[Len(s)]
Second(s) == s[Len(s) - 1]

\* C14: with a on top and b below it, for all a and b in
\* -MaxOperand..MaxOperand, ADD, SUB, MUL and DIV (a # 0) pop both, push
\* exactly one value and go on: a + b, b - a, a * b, and b / a truncated
\* toward zero.
C14_ArithmeticResults ==
    [][(/\ Executing(ArithOpcodes)
        /\ Len(stack) >= 2
        /\ ~(At(program, iip).opcode = "OP_DIV" /\ Top(stack) = 0))
       => LET a == Top(stack)
              b == Second(stack)
              op == At(program, iip).opcode
              r == Top(stack') IN
          /\ istatus' = "running"
          /\ iip' = iip + 1
          /\ out' = out
          /\ Len(stack') = Len(stack) - 1
          /\ Front(stack') = SubSeq(stack, 1, Len(stack) - 2)
          /\ op = "OP_ADD" => r = a + b
          /\ op = "OP_SUB" => r = b - a
          /\ op = "OP_MUL" => r = a * b
          /\ op = "OP_DIV" => IsTruncQuotient(r, b, a)
      ]_vars

\* -3 2 / has left -1, the quotient truncated toward zero
C14_Witness ==
    /\ tokens = <<"-3", "2", "/", ".">>
    /\ iip = 3
    /\ stack = <<-1>>

\* ------------------------------------------------------------------ C15

\* C15: with a on top and b below it, for all a and b in
\* -MaxOperand..MaxOperand, each comparison pops both and pushes 1 when the
\* relation holds with b on the left and 0 when it does not: EQ a = b,
\* NE a # b, GT b > a, GE b >= a, LT b < a, LE b <= a.
C15_ComparisonResults ==
    [][(Executing(CompareOpcodes) /\ Len(stack) >= 2)
       => LET a == Top(stack)
              b == Second(stack)
              op == At(program, iip).opcode
              r == Top(stack') IN
          /\ istatus' = "running"
          /\ iip' = iip + 1
          /\ out' = out
          /\ Len(stack') = Len(stack) - 1
          /\ Front(stack') = SubSeq(stack, 1, Len(stack) - 2)
          /\ r \in {0, 1}
          /\ op = "OP_EQ" => (r = 1) = (a = b)
          /\ op = "OP_NE" => (r = 1) = (a # b)
          /\ op = "OP_GT" => (r = 1) = (b > a)
          /\ op = "OP_GE" => (r = 1) = (b >= a)
          /\ op = "OP_LT" => (r = 1) = (b < a)
          /\ op = "OP_LE" => (r = 1) = (b <= a)
      ]_vars

\* 2 1 > has left 1: the value pushed first is the left operand
C15_Witness ==
    /\ tokens = <<"2", "1", ">", ".">>
    /\ iip = 3
    /\ stack = <<1>>

\* ------------------------------------------------------------------ C16

\* the number a sequence of decimal digits denotes
RECURSIVE DigitsValue(_)
DigitsValue(d) ==
    IF d = <<>> THEN 0
    ELSE 10 * DigitsValue(Front(d)) + (CHOOSE i \in 0..9 : DigitChar[i + 1] = Last(d))

\* text is the signed decimal representation of v: a minus sign exactly
\* when v is negative, then the digits of its magnitude without leading zeros
IsDecimalOf(text, v) ==
    LET digits == IF text # <<>> /\ text[1] = "-" THEN Tail(text) ELSE text IN
    /\ digits # <<>>
    /\ \A i \in 1..Len(digits) : \E n \in 0..9 : DigitChar[n + 1] = digits[i]
    /\ Len(digits) > 1 => digits[1] # "0"
    /\ (text[1] = "-") = (v < 0)
    /\ DigitsValue(digits) = Abs(v)

\* C16: a DUMP on a stack that is not empty pops the top value and appends to
\* the output its signed decimal representation and one newline; a DUMP on
\* an empty stack and every other instruction leave the output as it is.  So
\* the output is the values popped by the DUMPs executed, in order, one a line.
C16_OnlyDumpWrites ==
    [][/\ (Executing({"OP_DUMP"}) /\ stack # <<>>)
            => /\ Len(out') >= Len(out) + 2
               /\ SubSeq(out', 1, Len(out)) = out
               /\ Last(out') = "\n"
               /\ IsDecimalOf(SubSeq(out', Len(out) + 1, Len(out') - 1), Top(stack))
               /\ stack' = Front(stack)
       /\ ~(Executing({"OP_DUMP"}) /\ stack # <<>>) => out' = out
      ]_vars

\* 10, 420, -5 and 0 were dumped in this order
C16_Witness ==
    /\ istatus = "done"
    /\ tokens = <<"10", ".", "420", ".", "-5", ".", "0", ".">>
    /\ out = <<"1", "0", "\n", "4", "2", "0", "\n", "-", "5", "\n", "0", "\n">>

\* ------------------------------------------------------------------ C17

\* the number of values the instruction pops
Pops(opcode) ==
    IF opcode \in ArithOpcodes \cup CompareOpcodes THEN 2
    ELSE IF opcode \in {"OP_NOT", "OP_DUP", "OP_DUMP", "OP_IF", "OP_DO"} THEN 1
    ELSE 0

Fatal == {"panic", "exit1"}

\* C17 (as claimed): an instruction that finds fewer values on the stack
\* than it pops ends the run there: the ip stays at the instruction, nothing
\* is written, nothing runs afterwards, and the diagnostic names the ip of
\* the instruction.
C17_UnderflowNamesIp ==
    [][/\ (Executing(Opcodes) /\ Len(stack) < Pops(At(program, iip).opcode))
            => /\ istatus' \in Fatal
               /\ iip' = iip
               /\ out' = out
               /\ DiagnosticNamesIp(istatus')
       /\ istatus \in Fatal => UNCHANGED <<stack, iip, out, istatus>>
      ]_vars

\* ------------------------------------------------------------------ C18

\* C18: NOT pops a.  For a = 0 or a = 1 it pushes 1 - a and the run goes on
\* with the next instruction; for every other a in -MaxOperand..MaxOperand
\* the run ends there with a failure: the value is gone, nothing is pushed,
\* nothing is written and no later instruction runs.
C18_NotOnBooleans ==
    [][/\ (Executing({"OP_NOT"}) /\ stack # <<>>)
            => LET a == Top(stack) IN
               IF a \in {0, 1}
               THEN /\ stack' = Append(Front(stack), 1 - a)
                    /\ istatus' = "running"
                    /\ iip' = iip + 1
                    /\ out' = out
               ELSE /\ stack' = Front(stack)
                    /\ istatus' \in Fatal
                    /\ iip' = iip
                    /\ out' = out
       /\ istatus \in Fatal => UNCHANGED <<stack, iip, out, istatus>>
       /\ istatus' \in Fatal => pc' # "interpret"
      ]_vars

\* 2 ! has ended the run before the dumps that follow it
C18_Witness ==
    /\ tokens = <<"2", "!", ".", "1", ".">>
    /\ istatus = "exit1"
    /\ iip = 1
    /\ stack = <<>>
    /\ out = <<>>

\* ------------------------------------------------------------------ C19

\* C19 (as claimed): ADD, SUB, MUL and DIV (a # 0) never end the run: they
\* push the mathematical result reduced to the machine integer's range by
\* two's-complement wraparound, the division of the least integer by -1
\* included, and the run goes on.
C19_ArithmeticWraps ==
    [][(/\ Executing(ArithOpcodes)
        /\ Len(stack) >= 2
        /\ ~(At(program, iip).opcode = "OP_DIV" /\ Top(stack) = 0))
       => /\ istatus' = "running"
          /\ iip' = iip + 1
          /\ stack' = Append(SubSeq(stack, 1, Len(stack) - 2),
                             Wrap(ArithResult(At(program, iip).opcode,
                                              Top(stack), Second(stack))))
      ]_vars

\* ------------------------------------------------------------------ C20

\* positions of s, from 1: the first position of the line position i is in
LineStart(s, i) ==
    LET breaks == {j \in 1..(i - 1) : s[j] = "\n"} IN
    IF breaks = {} THEN 1 ELSE (CHOOSE j \in breaks : \A h \in breaks : h <= j) + 1

\* the zero-based index of the line position i is in
Row(s, i) == Cardinality({j \in 1..(i - 1) : s[j] = "\n"})

\* position i is at or after the first // of its line
InComment(s, i) ==
    \E j \in LineStart(s, i)..i : s[j] = "/" /\ j < Len(s) /\ s[j + 1] = "/"

\* position i holds a character of a token
InToken(s, i) == ~IsWhitespace(s[i]) /\ ~InComment(s, i)

\* the positions where a token starts and the position where the token that
\* starts at i ends
TokenStarts(s) ==
    {i \in 1..Len(s) : InToken(s, i) /\ (i = 1 \/ ~InToken(s, i - 1))}
TokenEnd(s, i) ==
    CHOOSE k \in i..Len(s) :
        /\ \A h \in i..k : InToken(s, h)
        /\ k = Len(s) \/ ~InToken(s, k + 1)

Texts(toks) == [n \in 1..Len(toks) |-> toks[n].tok]

\* the texts joined by single spaces
RECURSIVE JoinBySpace(_)
JoinBySpace(texts) ==
    IF texts = <<>> THEN <<>>
    ELSE IF Len(texts) = 1 THEN texts[1]
    ELSE texts[1] \o <<" ">> \o JoinBySpace(Tail(texts))

\* C21: the texts of the tokens of a source text, joined by single spaces
\* and given to the lexer again, come back as the same sequence of texts.
C21_LexerIdempotent ==
    pc = "lexed" => Texts(Lexer(JoinBySpace(Texts(tokens)))) = Texts(tokens)

\* tokens of two lines whose joined text is not the source text
C21_Witness ==
    /\ pc = "lexed"
    /\ source = <<"a", "\n", "/", " ", "/", "a">>
    /\ Texts(tokens) = <<<<"a">>, <<"/">>, <<"/", "a">>>>
    /\ JoinBySpace(Texts(tokens)) = <<"a", " ", "/", " ", "/", "a">>

\* ------------------------------------------------------------------ C22

\* main's loop over the arguments is over
Scanned == argi = Len(args) /\ exitcode # 0

\* the line holds this word
HasWord(line, words) == \E i \in 1..Len(line) : line[i] \in words

\* C22 (as claimed): for compile FILE followed by -r, -b and -o NAME in any
\* order, short or long, the scan ends with source_file = FILE and with
\* exec_file = NAME when -o NAME was given and out when it was not.
C22_CompileLineScanned ==
    (args \in CompileLines /\ Scanned) =>
        /\ source_file = "FILE"
        /\ exec_file = (IF HasWord(args, {"-o", "--output"}) THEN "NAME" ELSE "out")

\* ------------------------------------------------------------------ C23

SubcommandWords == {"compile", "interpret"}
OptionWords == {"-h", "--help", "-r", "--run", "-b", "--bytecode", "-o", "--output"}

\* the line names a source file: a word after a subcommand that is not an
\* option, not a subcommand and not the name that follows -o
FileGiven(line) ==
    \E i \in 2..Len(line) :
        /\ line[i] \notin SubcommandWords \cup OptionWords
        /\ line[i - 1] \notin {"-o", "--output"}
        /\ \E j \in 1..(i - 1) : line[j] \in SubcommandWords

\* C23 (as claimed): when the command line (without -h) holds both
\* subcommands, or names no source file, the checks after the loop end the
\* process with code 1, and nothing is lexed, parsed, interpreted or emitted
\* then or later.
C23_UsageErrorsFirst ==
    [][/\ (/\ pc = "args"
           /\ argi = Len(args)
           /\ (HasWord(args, {"compile"}) /\ HasWord(args, {"interpret"}))
              \/ ~FileGiven(args))
          => /\ pc' = "usage"
             /\ exitcode' = 1
             /\ UNCHANGED <<inputVars, parserVars, interpVars, compileVars>>
       /\ pc = "usage" => UNCHANGED vars
      ]_vars

\* ------------------------------------------------------------------ C24

\* the executable has been started
ExecutableRan == m.status # "idle"

\* the tool has run and did not end with status 0
EndedBadly(status) == status \in {ExitFail, ExitSignal}

\* the order of the pipeline, as a predicate of one state
PipelineOrdered ==
    /\ nasm # NotRun => cstatus = "emitted"
    /\ ld # NotRun => nasm = ExitOk
    /\ ExecutableRan => (run_prog /\ nasm = ExitOk /\ ld = ExitOk)
    /\ (EndedBadly(nasm) \/ EndedBadly(ld)) =>
          (pc = "exited" /\ exitcode = 1 /\ ~ExecutableRan)

\* C24: the assembler runs only on an emitted file, the linker only after
\* the assembler ended with status 0, and the executable only when -r was
\* given and both ended with status 0.  When either ends with another status
\* or by a signal, the bytecode is dumped, the process exits with code 1 and
\* the executable is never run; when both end with 0 the executable is run
\* exactly if -r was given.
C24_PipelineOrdered ==
    [][/\ PipelineOrdered
       /\ PipelineOrdered'
       /\ ((nasm = NotRun /\ EndedBadly(nasm')) \/ (ld = NotRun /\ EndedBadly(ld')))
            => (dumps' = dumps + 1 /\ exitcode' = 1 /\ pc' = "exited")
       /\ (ld = NotRun /\ ld' = ExitOk) => pc' = (IF run_prog THEN "run" ELSE "finished")
       /\ pc = "exited" => UNCHANGED vars
      ]_vars

\* -r was given, the assembler ended with 0, a signal ended the linker: the
\* bytecode was dumped, the process exited with 1 and nothing was run
C24_Witness ==
    /\ run_prog
    /\ nasm = ExitOk
    /\ ld = ExitSignal
    /\ pc = "exited"
    /\ exitcode = 1
    /\ dumps = 1
    /\ ~ExecutableRan

\* ------------------------------------------------------------------ C25

\* the positions of the IFs of p that have no ELSE
IfsWithoutElse(p) ==
    {k \in Positions(p, {"OP_IF"}) :
        p[CloserIndex(p, k, {"OP_ELSE", "OP_END"}) + 1].opcode = "OP_END"}

Jumps(p) ==
    {k \in Positions(p, {"OP_IF", "OP_ELSE", "OP_DO", "OP_END"}) : p[k].operands # <<>>}

\* the machine after n lines of the emitted code
RECURSIVE RunLines(_, _, _)
RunLines(lines, mach, n) ==
    IF n = 0 \/ mach.status # "running" THEN mach
    ELSE RunLines(lines, StepLine(lines, mach), n - 1)

\* the emitted code of the instruction at position k of the program, run
\* with v on top of the stack up to its last line, the jump
AtJump(k, v) ==
    RunLines(asm,
             Machine(LabelLine(asm, program[k].ip), [r \in Regs |-> 0], <<v>>,
                     FALSE, FALSE, <<>>, "running"),
             Len(EmitIns(program[k])) - 1)

EmittedJumpTaken(k, v) == asm[AtJump(k, v).pc].op = "jmp" \/ AtJump(k, v).zf
EmittedTarget(k, v) == asm[AtJump(k, v).pc].n

\* the interpreter on the same instruction with the same stack
InterpretedJumpTaken(k, v) == Execute(program[k], <<v>>, k - 1, <<>>, build).ip # k - 1
InterpretedTarget(k, v) == InterpretOne(program, <<v>>, k - 1, <<>>, build).ip

\* WHILE does nothing: execution that resumes at a WHILE resumes after it
RECURSIVE SkipWhile(_)
SkipWhile(i) ==
    IF InBounds(program, i) /\ At(program, i).opcode = "OP_WHILE" THEN SkipWhile(i + 1)
    ELSE i

\* the index of the instruction the label .addr_n stands before
LabelledIndex(n) == (CHOOSE j \in 1..Len(program) : program[j].ip = n) - 1

SameTransfer(k, v) ==
    /\ EmittedJumpTaken(k, v) = InterpretedJumpTaken(k, v)
    /\ InterpretedJumpTaken(k, v) =>
        /\ EmittedTarget(k, v) \in DefinedLabels(asm)
        /\ SkipWhile(LabelledIndex(EmittedTarget(k, v))) = SkipWhile(InterpretedTarget(k, v))

\* C26 (as claimed): for every IF, ELSE, DO and loop-closing END of a
\* returned program the emitted code jumps under the condition under which
\* the interpreter jumps, and resumes at the instruction at which the
\* interpreter resumes, up to skipping WHILE.
C26_SameControlTransfer ==
    cstatus = "emitted" =>
        \A k \in Jumps(program) : \A v \in {0, 1} : SameTransfer(k, v)

\* ------------------------------------------------------------------ C27

\* the interpreter's loop is at its head
AtLoopHead == pc = "interpret" /\ istatus = "running"

\* the index the arm of the instruction at ip leaves in ip, before ip += 1
Landing == Execute(At(program, iip), stack, iip, out, build).ip

\* C27: while the interpreter runs a returned program, 0 <= ip <=
\* len(program) at the head of the loop; an iteration is made exactly when
\* ip < len(program) and fetches inside the program, the index its arm
\* leaves in ip is inside the program, ip is that index plus one afterwards,
\* and the loop ends normally exactly when ip >= len(program).
C27_IpInsideProgram ==
    [][AtLoopHead =>
        /\ 0 <= iip /\ iip <= Len(program)
        /\ (istatus' = "done") = (iip >= Len(program))
        /\ iip < Len(program) =>
            /\ InBounds(program, iip)
            /\ istatus' = "running" =>
                /\ InBounds(program, Landing)
                /\ iip' = Landing + 1
                /\ iip' <= Len(program)]_vars

\* ------------------------------------------------------------------ C28

\* the interpreter is about to read operands[0] of an instruction that has
\* no operand: an ELSE, or an IF or DO that pops a zero
ReadsMissingOperand ==
    /\ AtLoopHead
    /\ iip < Len(program)
    /\ At(program, iip).operands = <<>>
    /\ \/ At(program, iip).opcode = "OP_ELSE"
       \/ /\ At(program, iip).opcode \in {"OP_IF", "OP_DO"}
          /\ stack # <<>>
          /\ Last(stack) = 0

\* C28 (as claimed): while a returned program is interpreted no IF, ELSE or
\* DO is reached whose operand is read and is missing, and codegen never
\* fails on a missing operand; unclosed blocks included.
C28_OperandsNeverMissing == ~ReadsMissingOperand /\ cstatus # "panic"

====
